---- MODULE Spec2Model ----
(***************************************************************************)
(* Model of QueryRoot<T> (src/types/query_root.rs): the root-query field   *)
(* dispatcher resolve_field and the build-time create_type_info.           *)
(*                                                                         *)
(* resolve_field is an async fn.  It is modelled from its entry up to its  *)
(* first suspension point by the action ResolveField, and every            *)
(* suspension point (.await) has an action that resumes it.                *)
(***************************************************************************)
EXTENDS Integers, Sequences, FiniteSets, TLC

\* ------------------------------------------------------------------ bounds
MaxReps == 3
MaxBuilds == 2
\* the longest `representations` list of two interleaved dispatches
MaxConcurrentReps == 1

\* ------------------------------------------------------------ value domains
IntrospectionMode == {"Enabled", "Disabled", "IntrospectionOnly"}

RootTypeName == "Query"
UserTypeName == "User"

\* field names a request can name on the query root
FieldNames == {"__schema", "__type", "_entities", "_service", "hello"}

\* entity representations sent by a gateway
Representations == {"A", "B", "Ghost", "Bad"}

\* source positions of the requested field (ctx.item.pos)
Positions == {1}

NoPos == 0

RECURSIVE SeqsUpTo(_, _)
SeqsUpTo(S, n) ==
    IF n = 0 THEN {<<>>}
    ELSE LET shorter == SeqsUpTo(S, n - 1)
         IN shorter \cup {Append(s, x) : s \in {t \in shorter : Len(t) = n - 1}, x \in S}

\* ------------------------------------------------------------------ values
\* Value: uniform records so that any two values can be compared.
Val(t, name, items) == [t |-> t, name |-> name, items |-> items]

NullValue == Val("Null", "", <<>>)
ListValue(items) == Val("List", "", items)
SchemaValue == Val("__Schema", "", <<>>)
TypeValue(name) == Val("__Type", name, <<>>)
ServiceValue(sdl) == Val("_Service", sdl, <<>>)
EntityValue(rep) == Val("Entity", rep, <<>>)
UserValue(name) == Val("User", name, <<>>)

\* ServerError: message kind and optional position
ServerError(kind, pos) == [kind |-> kind, pos |-> pos]
NoError == ServerError("", NoPos)

\* ServerResult<Option<Value>>
Ok(v) == [tag |-> "Some", val |-> v, err |-> NoError]
OkNone == [tag |-> "None", val |-> NullValue, err |-> NoError]
Err(e) == [tag |-> "Err", val |-> NullValue, err |-> e]
NoResult == [tag |-> "", val |-> NullValue, err |-> NoError]

\* ------------------------------------------------------------- arguments
\* An argument as written in the request: missing, of the wrong shape, a
\* string, or a list.
Arg(shape, str, list) == [shape |-> shape, str |-> str, list |-> list]
MissingArg == Arg("missing", "", <<>>)
WrongShapeArg == Arg("wrong", "", <<>>)
StringArg(s) == Arg("string", s, <<>>)
ListArg(l) == Arg("list", "", l)

NameArgs == {MissingArg, WrongShapeArg, StringArg(UserTypeName), StringArg("Ghost")}
RepresentationsArgs ==
    {MissingArg, WrongShapeArg} \cup {ListArg(l) : l \in SeqsUpTo(Representations, MaxReps)}

\* ---------------------------------------------------------------- registry
\* registry::MetaField, reduced to the members create_type_info sets to a
\* non-default value
MetaField(name, description, args, ty) ==
    [name |-> name, description |-> description, args |-> args, ty |-> ty]

\* registry::MetaType: kind, whether it carries federation keys, field map.
\* The field map is an IndexMap: an ordered list of entries with unique keys.
MetaType(kind, keys, fields) == [kind |-> kind, keys |-> keys, fields |-> fields]

\* The user-defined root type T held in QueryRoot.inner: the names of its
\* own fields, whether its type graph has a User type, and whether that
\* type is an entity.
InnerKinds == {"no_user_type", "plain_user_type", "entity_user_type"}
\* a user-defined root type may itself declare a field under a reserved name
UserFieldNames == {"hello", "__schema"}
UserRootFields ==
    {f \in SeqsUpTo(UserFieldNames, Cardinality(UserFieldNames)) :
        \A i, j \in 1..Len(f) : i # j => f[i] # f[j]}
Inner(kind, fields) == [user_type |-> kind, fields |-> fields]

VARIABLES
    inner,       \* QueryRoot.inner: the user-defined root type
    registry,    \* registry::Registry
    builds,      \* how many times create_type_info has run
    pc,          \* where the dispatch of resolve_field stands
    ctx,         \* the Context resolve_field was called with
    ctx_obj,     \* the context made for the sub-call (with_selection_set)
    branch,      \* which of the reserved-field branches the dispatch entered
    calls,       \* collaborator calls made by the dispatch, in order
    elems,       \* try_join_all: one element per representation
    awaited,     \* what the awaited sub-resolver gave back
    result,      \* what resolve_field returned
    other        \* a second resolve_field future on the same &self and
                 \* registry, while it is not the one that runs

vars == <<inner, registry, builds, pc, ctx, ctx_obj, branch, calls, elems, awaited,
          result, other>>

\* mutant: insert that keeps the value of an existing key
IndexMapInsertIfAbsent(fields, key, value) ==
    IF \E i \in 1..Len(fields) : fields[i].name = key
    THEN fields
    ELSE Append(fields, value)

\* mutant: insert that never looks for the key
IndexMapInsertAppends(fields, key, value) == Append(fields, value)

\* IndexMap::insert: replaces the value of an existing key in place,
\* appends a new key
IndexMapInsert(fields, key, value) ==
    IF \E i \in 1..Len(fields) : fields[i].name = key
    THEN [i \in 1..Len(fields) |-> IF fields[i].name = key THEN value ELSE fields[i]]
    ELSE Append(fields, value)

IndexMapContainsKey(fields, key) == \E i \in 1..Len(fields) : fields[i].name = key
IndexMapCount(fields, key) == Cardinality({i \in 1..Len(fields) : fields[i].name = key})

\* Registry::create_type as used by every create_type_info: a type that is
\* already registered is left alone
CreateType(types, name, ty) ==
    IF name \in DOMAIN types THEN types ELSE (name :> ty) @@ types

\* T::create_type_info: registers the user's root object type and the types
\* reachable from it
InnerCreateTypeInfo(types) ==
    LET withRoot == CreateType(types, RootTypeName,
                        MetaType("Object", FALSE,
                                 [i \in 1..Len(inner.fields) |->
                                     MetaField(inner.fields[i], "", <<>>, "String")]))
    IN IF inner.user_type = "no_user_type" THEN withRoot
       ELSE CreateType(withRoot, UserTypeName,
                       MetaType("Object", inner.user_type = "entity_user_type",
                                <<MetaField("id", "", <<>>, "ID")>>))

\* __Schema::create_type_info: registers the introspection types
SchemaCreateTypeInfo(types) ==
    CreateType(CreateType(types, "__Schema", MetaType("Object", FALSE, <<>>)),
               "__Type", MetaType("Object", FALSE, <<>>))

SchemaFieldDescriptor ==
    MetaField("__schema", "Access the current type schema of this server.", <<>>, "__Schema")
TypeFieldDescriptor ==
    MetaField("__type", "Request the type information of a single type.", <<"name">>, "__Type")

IntrospectionBuilt(mode) == mode \in {"Enabled", "IntrospectionOnly"}

\* QueryRoot::create_type_info
CreateTypeInfoTypes(reg) ==
    LET root == InnerCreateTypeInfo(reg.types)
    IN IF IntrospectionBuilt(reg.introspection_mode)
       THEN LET withSchema == SchemaCreateTypeInfo(root)
            IN IF RootTypeName \in DOMAIN withSchema
                  /\ withSchema[RootTypeName].kind = "Object"
               THEN [withSchema EXCEPT ![RootTypeName].fields =
                        IndexMapInsert(
                            IndexMapInsert(@, "__schema", SchemaFieldDescriptor),
                            "__type", TypeFieldDescriptor)]
               ELSE withSchema
       ELSE root

CreateTypeInfo ==
    /\ builds < MaxBuilds
    /\ registry' = [registry EXCEPT !.types = CreateTypeInfoTypes(registry)]
    /\ builds' = builds + 1
    /\ UNCHANGED <<inner, pc, ctx, ctx_obj, branch, calls, elems, awaited, result,
                   other>>

\* ----------------------------------------------------------------- context
\* Context<'_>: the requested field (ctx.item), its arguments, the
\* request-level mode (ctx.query_env), the introspection flag and the type
\* names the visibility predicate hides from this request.
Context(field, pos, name, representations, mode, hidden) ==
    [field |-> field, pos |-> pos, name |-> name,
     representations |-> representations,
     introspection_mode |-> mode,
     is_for_introspection |-> FALSE,
     hidden |-> hidden]

NoContext == Context("", NoPos, MissingArg, MissingArg, "Enabled", {})

\* the requests a dispatch can be started with; an argument is enumerated
\* for the field that declares it
Requests ==
    {Context(f, p, n, r, m, h) :
        f \in FieldNames, p \in Positions, n \in NameArgs,
        r \in RepresentationsArgs, m \in IntrospectionMode,
        h \in SUBSET {UserTypeName}}

RequestShape(c) ==
    /\ c.field # "__type" => c.name = MissingArg
    /\ c.field # "_entities" => c.representations = MissingArg
    /\ c.field \notin {"__schema", "__type"} => c.hidden = {}

\* a collaborator call: which one, for which representation index (0 when
\* not per representation), and the introspection flag of the context passed
Call(op, idx, flag) == [op |-> op, idx |-> idx, flag |-> flag]

\* -------------------------------------------------------------------- gate
\* mutant: the request-level mode is not looked at
CanIntrospectSchemaOnly(schema_mode, query_mode) ==
    schema_mode \in {"Enabled", "IntrospectionOnly"}

\* mutant: one permitting mode is enough
CanIntrospectEither(schema_mode, query_mode) ==
    \/ schema_mode \in {"Enabled", "IntrospectionOnly"}
    \/ query_mode \in {"Enabled", "IntrospectionOnly"}

\* lines 29-35
CanIntrospect(schema_mode, query_mode) ==
    /\ schema_mode \in {"Enabled", "IntrospectionOnly"}
    /\ query_mode \in {"Enabled", "IntrospectionOnly"}

\* mutant: only the schema-level mode is looked at
IsIntrospectionOnlySchema(schema_mode, query_mode) ==
    schema_mode = "IntrospectionOnly"

\* mutant: both modes must be IntrospectionOnly
IsIntrospectionOnlyBoth(schema_mode, query_mode) ==
    /\ schema_mode = "IntrospectionOnly"
    /\ query_mode = "IntrospectionOnly"

\* lines 67-68
IsIntrospectionOnly(schema_mode, query_mode) ==
    \/ schema_mode = "IntrospectionOnly"
    \/ query_mode = "IntrospectionOnly"

\* Registry::has_entities
HasEntities(reg) == \E n \in DOMAIN reg.types : reg.types[n].keys

\* mutant: both federation triggers are required
FederationAvailableBoth(reg) == reg.enable_federation /\ HasEntities(reg)

\* line 73
FederationAvailable(reg) == reg.enable_federation \/ HasEntities(reg)

\* Context::param_value::<T>(name, None): the argument's position and its
\* parsed value, or an argument error carrying the field's position
ParamValue(c, arg, shape) ==
    IF arg.shape = shape
    THEN [ok |-> TRUE, pos |-> c.pos + 1, value |-> arg, err |-> NoError]
    ELSE [ok |-> FALSE, pos |-> NoPos, value |-> arg,
          err |-> ServerError("Invalid argument.", c.pos)]

\* mutant: a failed argument is not returned, its default value is used
FailedIgnored(p) == FALSE

\* lines 48, 75: the ? applied to param_value returns its error at once
Failed(p) == ~p.ok

\* Context::with_selection_set: a context for the sub-selection that carries
\* the caller's fields over
WithSelectionSet(c) == c

\* mutant: the sub-call's context is left unflagged
IntrospectionContextUnflagged(c) == WithSelectionSet(c)

\* lines 37-38, 49-50, 86-87: the sub-call's context, flagged
IntrospectionContext(c) == [WithSelectionSet(c) EXCEPT !.is_for_introspection = TRUE]

\* Registry::find_visible_types
FindVisibleTypes(reg, c) == (DOMAIN reg.types) \ c.hidden

\* mutant: the visibility filter is dropped
TypeLookupUnfiltered(reg, visible_types, type_name) ==
    IF type_name \in DOMAIN reg.types
    THEN [some |-> TRUE, name |-> type_name]
    ELSE [some |-> FALSE, name |-> ""]

\* lines 53-58: types.get(name).filter(visible).map(__Type::new_simple)
TypeLookup(reg, visible_types, type_name) ==
    IF type_name \in DOMAIN reg.types /\ type_name \in visible_types
    THEN [some |-> TRUE, name |-> type_name]
    ELSE [some |-> FALSE, name |-> ""]

\* ObjectType::find_entity of the inner type: routes a representation to
\* the type that resolves it
FindEntity(rep) ==
    CASE rep = "Ghost" -> OkNone
      [] rep = "Bad" -> Err(ServerError("find_entity failed", NoPos))
      [] OTHER -> Ok(EntityValue(rep))

\* mutant: the not-found error takes the position param_value returned
EntityFutureArgPos(c, rep) ==
    LET r == FindEntity(rep)
    IN IF r.tag = "Err" THEN r
       ELSE IF r.tag = "None"
            THEN Err(ServerError("Entity not found.",
                                 ParamValue(c, c.representations, "list").pos))
            ELSE r

\* lines 77-81: the future made for one representation
EntityFuture(c, rep) ==
    LET r == FindEntity(rep)
    IN IF r.tag = "Err" THEN r
       ELSE IF r.tag = "None"
            THEN Err(ServerError("Entity not found.", c.pos))
            ELSE r

\* ------------------------------------------------------------ try_join_all
\* One element per future: not yet polled ("new"), polled and pending,
\* pending and woken, or done with its output kept at its index.
Elem(st, out) == [st |-> st, out |-> out]

\* mutant: the last representation gets no future
NewElemsOneShort(n) == [i \in 1..(n - 1) |-> Elem("new", NullValue)]

\* lines 76-82: one future per representation, in the order of the list
NewElems(n) == [i \in 1..n |-> Elem("new", NullValue)]

\* mutant: the scan goes on after an error and reports the last one it met
RECURSIVE PollElemsLastError(_, _, _, _, _)
PollElemsLastError(c, reps, es, ready, acc) ==
    LET i == acc.next
    IN IF i > Len(es)
       THEN IF acc.state = "Error" THEN [acc EXCEPT !.elems = <<>>]
            ELSE [acc EXCEPT !.elems = es]
       ELSE LET called == IF es[i].st = "new"
                          THEN Append(acc.calls,
                                      Call("find_entity", i, c.is_for_introspection))
                          ELSE acc.calls
                returned == Append(called,
                                   Call("find_entity returned", i, c.is_for_introspection))
            IN IF es[i].st = "done"
               THEN PollElemsLastError(c, reps, es, ready, [acc EXCEPT !.next = i + 1])
               ELSE IF i \notin ready
               THEN PollElemsLastError(c, reps, [es EXCEPT ![i].st = "pending"], ready,
                        [acc EXCEPT !.next = i + 1,
                                    !.state = IF @ = "Error" THEN @ ELSE "Pending",
                                    !.calls = called])
               ELSE LET r == EntityFuture(c, reps[i])
                    IN IF r.tag = "Err"
                       THEN PollElemsLastError(c, reps, es, ready,
                                [acc EXCEPT !.next = i + 1, !.state = "Error",
                                            !.err = r.err, !.calls = returned])
                       ELSE PollElemsLastError(c, reps,
                                [es EXCEPT ![i] = Elem("done", r.val)], ready,
                                [acc EXCEPT !.next = i + 1, !.calls = returned])

\* One poll of TryJoinAll: polls the elements that are not done in index
\* order; an element completes when its future is ready; the first error
\* stops the scan.  state is "AllDone", "Pending" or "Error".  e and a are
\* the elements and the scan state of this step, as values.
RECURSIVE PollElems(_, _, _, _, _)
PollElems(c, reps, es, ready, acc) ==
    CHOOSE polled \in
        {LET i == a.next
         IN IF i > Len(e) THEN [a EXCEPT !.elems = e]
            ELSE LET called == IF e[i].st = "new"
                               THEN Append(a.calls,
                                        Call("find_entity", i, c.is_for_introspection))
                               ELSE a.calls
                     returned == Append(called,
                                     Call("find_entity returned", i,
                                          c.is_for_introspection))
                 IN IF e[i].st = "done"
                    THEN PollElems(c, reps, e, ready, [a EXCEPT !.next = i + 1])
                    ELSE IF i \notin ready
                    THEN PollElems(c, reps, [e EXCEPT ![i].st = "pending"], ready,
                                   [a EXCEPT !.next = i + 1, !.state = "Pending",
                                             !.calls = called])
                    ELSE LET r == EntityFuture(c, reps[i])
                         IN IF r.tag = "Err"
                            THEN [a EXCEPT !.elems = <<>>, !.state = "Error",
                                           !.err = r.err, !.calls = returned]
                            ELSE PollElems(c, reps,
                                           [e EXCEPT ![i] = Elem("done", r.val)], ready,
                                           [a EXCEPT !.next = i + 1,
                                                     !.calls = returned])
         : e \in {es}, a \in {acc}} : TRUE

\* the state a poll starts its scan with
PollStart(es, log) ==
    [next |-> 1, elems |-> es, state |-> "AllDone", err |-> NoError, calls |-> log]

\* mutant: the outputs are taken last to first
TakeOutputsReversed(es) == [i \in 1..Len(es) |-> es[Len(es) + 1 - i].out]

\* the outputs, taken in index order once every element is done
TakeOutputs(es) == [i \in 1..Len(es) |-> es[i].out]

\* mutant: an empty list of outputs is reported as no value
JoinResultEmptyIsNone(polled) ==
    IF polled.state = "Error" THEN Err(polled.err)
    ELSE IF polled.elems = <<>> THEN OkNone
    ELSE Ok(ListValue(TakeOutputs(polled.elems)))

\* lines 83-84: what the await of try_join_all gives resolve_field
JoinResult(polled) ==
    IF polled.state = "Error" THEN Err(polled.err)
    ELSE Ok(ListValue(TakeOutputs(polled.elems)))

\* ------------------------------------------------------------ resolve_field
\* What resolve_field has done when it first suspends or returns.
Step(next, sub, taken, log, es, res) ==
    [pc |-> next, ctx_obj |-> sub, branch |-> taken, calls |-> log,
     elems |-> es, result |-> res]

\* lines 74-84, from the first poll of try_join_all
Entities(c, reps, ready) ==
    LET polled == PollElems(c, reps, NewElems(Len(reps)), ready,
                            PollStart(NewElems(Len(reps)), <<>>))
    IN IF polled.state = "Pending"
       THEN Step("await_join", NoContext, {"federation"}, polled.calls,
                 polled.elems, NoResult)
       ELSE Step("done", NoContext, {"federation"}, polled.calls, <<>>,
                 JoinResult(polled))

\* lines 28-105, up to the first await that suspends
Dispatch(reg, c, ready) ==
    IF CanIntrospect(reg.introspection_mode, c.introspection_mode)
       /\ c.field = "__schema"
    THEN Step("await_schema", IntrospectionContext(c), {"introspection"},
              <<Call("find_visible_types", 0, c.is_for_introspection),
                Call("resolve __Schema", 0, IntrospectionContext(c).is_for_introspection)>>,
              <<>>, NoResult)
    ELSE IF CanIntrospect(reg.introspection_mode, c.introspection_mode)
            /\ c.field = "__type"
    THEN LET p == ParamValue(c, c.name, "string")
         IN IF Failed(p)
            THEN Step("done", NoContext, {"introspection"}, <<>>, <<>>, Err(p.err))
            ELSE Step("await_type", IntrospectionContext(c), {"introspection"},
                      <<Call("find_visible_types", 0, c.is_for_introspection),
                        Call("resolve __Type", 0,
                             IntrospectionContext(c).is_for_introspection)>>,
                      <<>>, NoResult)
    ELSE IF IsIntrospectionOnly(reg.introspection_mode, c.introspection_mode)
    THEN Step("done", NoContext, {}, <<>>, <<>>, OkNone)
    ELSE IF FederationAvailable(reg) /\ c.field = "_entities"
    THEN LET p == ParamValue(c, c.representations, "list")
         IN IF Failed(p)
            THEN Step("done", NoContext, {"federation"}, <<>>, <<>>, Err(p.err))
            ELSE Entities(c, p.value.list, ready)
    ELSE IF FederationAvailable(reg) /\ c.field = "_service"
    THEN Step("await_service", IntrospectionContext(c), {"federation"},
              <<Call("export_sdl", 0, c.is_for_introspection),
                Call("resolve _Service", 0, IntrospectionContext(c).is_for_introspection)>>,
              <<>>, NoResult)
    ELSE Step("await_inner", NoContext, {"delegated"},
              <<Call("inner.resolve_field", 0, c.is_for_introspection)>>,
              <<>>, NoResult)

ResolveField(requests) ==
    /\ pc = "idle"
    /\ builds >= 1
    /\ \E c \in requests :
        /\ RequestShape(c)
        /\ \E ready \in SUBSET (1..Len(c.representations.list)) :
            LET step == Dispatch(registry, c, ready)
            IN /\ ctx' = c
               /\ pc' = step.pc
               /\ ctx_obj' = step.ctx_obj
               /\ branch' = step.branch
               /\ calls' = step.calls
               /\ elems' = step.elems
               /\ result' = step.result
    /\ awaited' = NoResult
    /\ UNCHANGED <<inner, registry, builds, other>>

\* ------------------------------------------------------- sub-resolver awaits
\* mutant: a sub-resolver error is turned into no value
MapSomeDropsError(r) == IF r.tag = "Err" THEN OkNone ELSE Ok(r.val)

\* ServerResult<Value> of a sub-resolver, and the .map(Some) applied to it
MapSome(r) == IF r.tag = "Err" THEN r ELSE Ok(r.val)

\* what the awaited OutputType::resolve can give for a present object
ResolveOutcomes(v, what) == {Ok(v), Err(ServerError(what, NoPos))}

\* mutant: no value from the inner resolver is turned into a present null
DelegateMapsSome(r) == IF r.tag = "None" THEN Ok(NullValue) ELSE r

\* line 104: what the inner resolver gives is returned as it is
Delegate(r) == r

\* mutant: the request-level mode is kept in the registry on return
ReturnStoresMode(sub, res) ==
    /\ pc' = "done"
    /\ awaited' = sub
    /\ result' = res
    /\ ctx_obj' = NoContext
    /\ registry' = [registry EXCEPT !.introspection_mode = ctx.introspection_mode]
    /\ UNCHANGED <<inner, builds, ctx, branch, calls, elems, other>>

\* the await of a sub-resolver gives sub; resolve_field returns res
Return(sub, res) ==
    /\ pc' = "done"
    /\ awaited' = sub
    /\ result' = res
    /\ ctx_obj' = NoContext
    /\ UNCHANGED <<inner, registry, builds, ctx, branch, calls, elems, other>>

\* lines 40-46: OutputType::resolve(&__Schema, &ctx_obj, ..).await.map(Some)
SchemaResolved ==
    /\ pc = "await_schema"
    /\ \E r \in ResolveOutcomes(SchemaValue, "__Schema failed") : Return(r, MapSome(r))

\* OutputType::resolve of Option<T>: None resolves to null, Some(v) to what
\* v resolves to
OptionResolveOutcomes(opt) ==
    IF opt.some THEN ResolveOutcomes(TypeValue(opt.name), "__Type failed")
    ELSE {Ok(NullValue)}

\* lines 52-63: OutputType::resolve(&Option<__Type>, &ctx_obj, ..).await.map(Some)
TypeResolved ==
    /\ pc = "await_type"
    /\ \E r \in OptionResolveOutcomes(
                    TypeLookup(registry, FindVisibleTypes(registry, ctx), ctx.name.str)) :
          Return(r, MapSome(r))

\* lines 88-100: OutputType::resolve(&Service{sdl}, &ctx_obj, ..).await.map(Some)
ServiceResolved ==
    /\ pc = "await_service"
    /\ \E r \in ResolveOutcomes(ServiceValue("federation sdl"), "_Service failed") :
          Return(r, MapSome(r))

\* line 104: self.inner.resolve_field(ctx).await, returned as it is
InnerOutcomes(c) ==
    {Ok(UserValue(c.field)), OkNone, Err(ServerError("inner failed", NoPos))}

InnerResolved ==
    /\ pc = "await_inner"
    /\ \E r \in InnerOutcomes(ctx) : Return(r, Delegate(r))

\* -------------------------------------------------------- try_join_all await
\* the find_entity future of representation i becomes ready and wakes the
\* task
Wake(i) ==
    /\ pc = "await_join"
    /\ i \in 1..Len(elems)
    /\ elems[i].st = "pending"
    /\ elems' = [elems EXCEPT ![i].st = "woken"]
    /\ UNCHANGED <<inner, registry, builds, pc, ctx, ctx_obj, branch, calls, awaited,
                   result, other>>

\* mutant: a wake-up is never seen
WokenLost(es) == {}

\* the elements whose future has woken the task since the last poll
Woken(es) == {i \in 1..Len(es) : es[i].st = "woken"}

\* lines 76-84: the woken task polls try_join_all again
PollJoin ==
    /\ pc = "await_join"
    /\ Woken(elems) # {}
    /\ \E polled \in {PollElems(ctx, ctx.representations.list, elems, Woken(elems),
                                 PollStart(elems, calls))} :
          /\ calls' = polled.calls
          /\ IF polled.state = "Pending"
             THEN /\ elems' = polled.elems
                  /\ UNCHANGED <<pc, result>>
             ELSE /\ elems' = <<>>
                  /\ pc' = "done"
                  /\ result' = JoinResult(polled)
    /\ UNCHANGED <<inner, registry, builds, ctx, ctx_obj, branch, awaited, other>>

\* line 105: resolve_field has returned; its caller takes the result and the
\* borrowed context is released
Returned ==
    /\ pc = "done"
    /\ pc' = "idle"
    /\ ctx' = NoContext
    /\ branch' = {}
    /\ calls' = <<>>
    /\ awaited' = NoResult
    /\ result' = NoResult
    /\ UNCHANGED <<inner, registry, builds, ctx_obj, elems, other>>

\* ------------------------------------------------------------ specification
\* the state of a resolve_field future: its arguments and locals
Future(at, c, sub, taken, log, es, sub_res, res) ==
    [pc |-> at, ctx |-> c, ctx_obj |-> sub, branch |-> taken, calls |-> log,
     elems |-> es, awaited |-> sub_res, result |-> res]

\* a dispatch that has not been started
NotStarted == Future("idle", NoContext, NoContext, {}, <<>>, <<>>, NoResult, NoResult)

\* the dispatcher is idle
Idle ==
    /\ pc = "idle"
    /\ ctx = NoContext
    /\ ctx_obj = NoContext
    /\ branch = {}
    /\ calls = <<>>
    /\ elems = <<>>
    /\ awaited = NoResult
    /\ result = NoResult
    /\ other = NotStarted

\* a registry as Schema::build hands it to create_type_info
NewRegistries ==
    [introspection_mode : IntrospectionMode,
     enable_federation : BOOLEAN,
     types : {<<>>}]

\* Serving: the schema has been built, create_type_info has run once
Init ==
    /\ inner \in {Inner(k, <<"hello">>) : k \in InnerKinds}
    /\ \E reg \in NewRegistries :
          registry = [reg EXCEPT !.types = CreateTypeInfoTypes(reg)]
    /\ builds = 1
    /\ Idle

Next ==
    \/ ResolveField(Requests)
    \/ SchemaResolved
    \/ TypeResolved
    \/ ServiceResolved
    \/ InnerResolved
    \/ \E i \in 1..MaxReps : Wake(i)
    \/ PollJoin
    \/ Returned

Spec == Init /\ [][Next]_vars

\* Serving under a fair executor: while find_entity futures are pending one
\* of them becomes ready in the end, and a task that was woken is polled
\* again
\* (on a schema that serves the federation fields)
FairInit ==
    /\ Init
    /\ registry.enable_federation
    /\ inner.user_type = "entity_user_type"
    /\ registry.introspection_mode \in {"Enabled", "Disabled"}

FairSpec ==
    /\ FairInit
    /\ [][Next]_vars
    /\ WF_vars(\E i \in 1..MaxReps : Wake(i))
    /\ WF_vars(PollJoin)

\* Two dispatches on the same schema: resolve_field borrows self and the
\* registry shared (&self, line 28), so a second resolve_field future can be
\* polled whenever the first one is not running.  Switch hands the thread
\* to the other future.
Switch ==
    /\ pc' = other.pc
    /\ ctx' = other.ctx
    /\ ctx_obj' = other.ctx_obj
    /\ branch' = other.branch
    /\ calls' = other.calls
    /\ elems' = other.elems
    /\ awaited' = other.awaited
    /\ result' = other.result
    /\ other' = Future(pc, ctx, ctx_obj, branch, calls, elems, awaited, result)
    /\ UNCHANGED <<inner, registry, builds>>

\* the requests the two interleaved dispatches are started with
ConcurrentRequests ==
    {c \in Requests :
        /\ RequestShape(c)
        /\ Len(c.representations.list) <= MaxConcurrentReps}

\* (on a schema that serves every reserved field)
ConcurrentInit ==
    /\ Init
    /\ registry.enable_federation
    /\ inner.user_type = "entity_user_type"

NextConcurrent ==
    \/ ResolveField(ConcurrentRequests)
    \/ SchemaResolved
    \/ TypeResolved
    \/ ServiceResolved
    \/ InnerResolved
    \/ \E i \in 1..MaxReps : Wake(i)
    \/ PollJoin
    \/ Returned
    \/ Switch

SpecConcurrent == ConcurrentInit /\ [][NextConcurrent]_vars

\* Schema build: create_type_info runs on a new registry, and may run again
InitBuild ==
    /\ inner \in {Inner(k, f) : k \in InnerKinds, f \in UserRootFields}
    /\ registry \in NewRegistries
    /\ builds = 0
    /\ Idle

NextBuild == CreateTypeInfo

SpecBuild == InitBuild /\ [][NextBuild]_vars

TypeOK ==
    /\ inner.user_type \in InnerKinds
    /\ builds \in 0..MaxBuilds
    /\ pc \in {"idle", "await_schema", "await_type", "await_service",
               "await_inner", "await_join", "done"}
    /\ branch \subseteq {"introspection", "federation", "delegated"}
    /\ other.pc \in {"idle", "await_schema", "await_type", "await_service",
                     "await_inner", "await_join", "done"}

\* ================================================================== claims
Permits(mode) == mode \in {"Enabled", "IntrospectionOnly"}
BothPermit == Permits(registry.introspection_mode) /\ Permits(ctx.introspection_mode)
EitherIntrospectionOnly ==
    registry.introspection_mode = "IntrospectionOnly"
        \/ ctx.introspection_mode = "IntrospectionOnly"
IntrospectionField == ctx.field \in {"__schema", "__type"}
FederationField == ctx.field \in {"_entities", "_service"}
Dispatched == pc # "idle"
CallOps == {calls[k].op : k \in 1..Len(calls)}
IntrospectionOps == {"find_visible_types", "resolve __Schema", "resolve __Type"}
EntityWithKeys == \E n \in DOMAIN registry.types : registry.types[n].keys
RepList == ctx.representations.list
OnEntitiesPath ==
    /\ Dispatched
    /\ ctx.field = "_entities"
    /\ "federation" \in branch
    /\ ctx.representations.shape = "list"
ReturnedBefore(i, j) ==
    \E a, b \in 1..Len(calls) :
        /\ a < b
        /\ calls[a] = Call("find_entity returned", i, ctx.is_for_introspection)
        /\ calls[b] = Call("find_entity returned", j, ctx.is_for_introspection)

\* C1: a dispatch of __schema or __type enters the introspection branch if
\* and only if the schema-level and the request-level mode are both Enabled
\* or IntrospectionOnly; for every other pair of modes the dispatch makes no
\* call into the introspection resolver.
C1_IntrospectionIffBothPermit ==
    (Dispatched /\ IntrospectionField) =>
        /\ ("introspection" \in branch) <=> BothPermit
        /\ ~BothPermit => CallOps \cap IntrospectionOps = {}

C1_Witness ==
    /\ pc = "done"
    /\ ctx.field = "__schema"
    /\ registry.introspection_mode = "IntrospectionOnly"
    /\ ctx.introspection_mode = "Enabled"
    /\ branch = {"introspection"}
    /\ "resolve __Schema" \in CallOps
    /\ result.tag = "Some"

\* C2 as stated: every dispatch that has returned entered exactly one of the
\* introspection, federation and delegated branches.
C2_ExactlyOnePath == pc = "done" => Cardinality(branch) = 1

\* C2 amended: a dispatch enters at most one of the three branches; it
\* enters none exactly when a mode is IntrospectionOnly and the field is not
\* an introspection field the gate serves, and it then returns no value
\* without calling any collaborator.
C2_AtMostOnePath ==
    Dispatched =>
        /\ Cardinality(branch) <= 1
        /\ (branch = {}) <=>
               (EitherIntrospectionOnly /\ ~(IntrospectionField /\ BothPermit))
        /\ branch = {} => (pc = "done" /\ result = OkNone /\ calls = <<>>)
        /\ ("delegated" \in branch) <=> ("inner.resolve_field" \in CallOps)

C2_Witness ==
    /\ pc = "done"
    /\ branch = {}
    /\ ctx.field = "hello"
    /\ ctx.introspection_mode = "IntrospectionOnly"
    /\ registry.introspection_mode = "Enabled"
    /\ result = OkNone

\* C3: when the schema-level or the request-level mode is IntrospectionOnly,
\* a dispatch of any field other than __schema and __type returns no value
\* at once: no error, no call to find_entity, SDL export or the inner
\* resolver, whatever its arguments and the federation settings are.
C3_IntrospectionOnlyNoValue ==
    (Dispatched /\ EitherIntrospectionOnly /\ ~IntrospectionField) =>
        /\ pc = "done"
        /\ result = OkNone
        /\ calls = <<>>
        /\ elems = <<>>

C3_Witness ==
    /\ pc = "done"
    /\ ctx.field = "_entities"
    /\ ctx.representations = WrongShapeArg
    /\ registry.enable_federation
    /\ EntityWithKeys
    /\ registry.introspection_mode = "Enabled"
    /\ ctx.introspection_mode = "IntrospectionOnly"
    /\ result = OkNone

\* C4: when neither mode is IntrospectionOnly, a dispatch of _entities or
\* _service enters the federation branch if and only if enable_federation
\* is set or a registered type carries keys; otherwise it is delegated to
\* the inner resolver.
C4_FederationIffEitherTrigger ==
    (Dispatched /\ ~EitherIntrospectionOnly /\ FederationField) =>
        /\ ("federation" \in branch) <=> (registry.enable_federation \/ EntityWithKeys)
        /\ ~(registry.enable_federation \/ EntityWithKeys) =>
               (branch = {"delegated"} /\ "inner.resolve_field" \in CallOps)

C4_Witness ==
    /\ pc = "await_service"
    /\ ~registry.enable_federation
    /\ EntityWithKeys
    /\ branch = {"federation"}

\* C5: when _entities is served and every representation resolves, the
\* returned list has, at every index i, the entity find_entity gives for
\* representation i, whatever order the per-representation futures
\* completed in.
C5_OutputOrderIsInputOrder ==
    (pc = "done" /\ OnEntitiesPath /\ result.tag = "Some") =>
        /\ result.val.t = "List"
        /\ Len(result.val.items) = Len(RepList)
        /\ \A i \in 1..Len(RepList) :
               result.val.items[i] = FindEntity(RepList[i]).val

C5_Witness ==
    /\ pc = "done"
    /\ OnEntitiesPath
    /\ RepList = <<"A", "B">>
    /\ ReturnedBefore(2, 1)
    /\ result = Ok(ListValue(<<EntityValue("A"), EntityValue("B")>>))

NotFoundAtField == ServerError("Entity not found.", ctx.pos)
HasRep(r) == \E i \in 1..Len(RepList) : RepList[i] = r

\* C6 as stated: an _entities call with a representation that matches no
\* type fails with the entity-not-found error at the field's position,
\* whatever happens to the other representations.
C6_NotFoundWhateverTheOthers ==
    (pc = "done" /\ OnEntitiesPath /\ HasRep("Ghost")) =>
        result = Err(NotFoundAtField)

\* C6 amended: an _entities call with a representation that matches no type
\* fails as a whole and returns no list, whether or not the other
\* representations succeed; the error is the entity-not-found error at the
\* position of the _entities field, unless the find_entity call of another
\* representation returned an error of its own, in which case the call
\* fails with one of these two errors.
C6_UnresolvableFailsTheBatch ==
    (pc = "done" /\ OnEntitiesPath /\ HasRep("Ghost")) =>
        /\ result.tag = "Err"
        /\ result.val = NullValue
        /\ \/ result.err = NotFoundAtField
           \/ HasRep("Bad") /\ result.err = FindEntity("Bad").err
        /\ ~HasRep("Bad") => result.err = NotFoundAtField

C6_Witness ==
    /\ pc = "done"
    /\ OnEntitiesPath
    /\ RepList = <<"A", "Ghost", "B">>
    /\ Call("find_entity returned", 1, FALSE) \in {calls[k] : k \in 1..Len(calls)}
    /\ result = Err(NotFoundAtField)
    /\ result.err.pos = ctx.pos

\* C7: an _entities call served with an empty representations list returns
\* a present empty list at once, without an error and without a call to
\* find_entity or to the inner resolver.
C7_EmptyRepresentations ==
    (OnEntitiesPath /\ RepList = <<>>) =>
        /\ pc = "done"
        /\ result = Ok(ListValue(<<>>))
        /\ calls = <<>>

C7_Witness ==
    /\ pc = "done"
    /\ OnEntitiesPath
    /\ RepList = <<>>
    /\ result = Ok(ListValue(<<>>))

TypeNameArg == ctx.name.str
OnTypePath ==
    /\ pc = "done"
    /\ ctx.field = "__type"
    /\ "introspection" \in branch
    /\ ctx.name.shape = "string"

\* C8: a served __type(name: N) returns a present null when N is not in the
\* registry's type table or is hidden from the request, without an error
\* and without a call to the inner resolver; it returns a type description
\* only when N is registered and visible.
C8_UnknownOrHiddenTypeIsNull ==
    OnTypePath =>
        /\ (TypeNameArg \notin DOMAIN registry.types \/ TypeNameArg \in ctx.hidden) =>
               (result = Ok(NullValue) /\ "inner.resolve_field" \notin CallOps)
        /\ result.val.t = "__Type" =>
               /\ result.val.name = TypeNameArg
               /\ TypeNameArg \in DOMAIN registry.types
               /\ TypeNameArg \notin ctx.hidden

C8_Witness ==
    /\ OnTypePath
    /\ TypeNameArg = UserTypeName
    /\ UserTypeName \in DOMAIN registry.types
    /\ UserTypeName \in ctx.hidden
    /\ result = Ok(NullValue)

RootFields(reg) == reg.types[RootTypeName].fields

Descriptors == {SchemaFieldDescriptor, TypeFieldDescriptor}
HoldsDescriptor(fields) == \E i \in 1..Len(fields) : fields[i] \in Descriptors

\* the field map T::create_type_info hands to the insertions of lines 125-181
BeforeInsert == InnerCreateTypeInfo(registry.types)[RootTypeName].fields

\* C9: after create_type_info has run with the schema-level mode Disabled,
\* the root type's field map holds neither descriptor: it is the field map
\* the user's type built; with the mode Enabled or IntrospectionOnly it
\* holds exactly one entry named __schema and one named __type, and these
\* are the two descriptors; a further run of create_type_info leaves the
\* field map as it was.
C9_DescriptorsOnceAndIdempotent ==
    [][builds' = builds + 1 =>
        /\ registry.introspection_mode = "Disabled" =>
              /\ ~HoldsDescriptor(RootFields(registry'))
              /\ RootFields(registry') = BeforeInsert
              /\ IndexMapCount(RootFields(registry'), "__type") = 0
              /\ IndexMapCount(RootFields(registry'), "__schema") =
                     IndexMapCount(BeforeInsert, "__schema")
        /\ registry.introspection_mode # "Disabled" =>
              /\ IndexMapCount(RootFields(registry'), "__schema") = 1
              /\ IndexMapCount(RootFields(registry'), "__type") = 1
              /\ \A d \in Descriptors :
                    \E i \in 1..Len(RootFields(registry')) : RootFields(registry')[i] = d
        /\ builds >= 1 => RootFields(registry') = RootFields(registry)]_vars

C9_Witness ==
    /\ builds = 2
    /\ registry.introspection_mode = "IntrospectionOnly"
    /\ IndexMapCount(RootFields(registry), "__schema") = 1
    /\ IndexMapCount(RootFields(registry), "__type") = 1

FlaggedOps == {"resolve __Schema", "resolve __Type", "resolve _Service"}
SubCallAwaits == {"await_schema", "await_type", "await_service"}

\* C10: the sub-resolver of __schema, __type and _service is called with a
\* context whose introspection flag is set; that context exists only while
\* the sub-call runs, the context of the caller keeps its flag, and
\* find_entity and the inner resolver are called with the caller's flag.
C10_FlagScopedToSubCall ==
    Dispatched =>
        /\ ctx.is_for_introspection = FALSE
        /\ \A k \in 1..Len(calls) :
              /\ calls[k].op \in FlaggedOps => calls[k].flag = TRUE
              /\ calls[k].op \in {"find_entity", "inner.resolve_field"} =>
                     calls[k].flag = ctx.is_for_introspection
        /\ pc \in SubCallAwaits =>
              /\ ctx_obj.is_for_introspection = TRUE
              /\ CallOps \cap FlaggedOps # {}
        /\ pc \notin SubCallAwaits => ctx_obj = NoContext

C10_Witness ==
    /\ pc = "await_service"
    /\ ctx_obj.is_for_introspection = TRUE
    /\ ctx.is_for_introspection = FALSE
    /\ Call("resolve _Service", 0, TRUE) \in {calls[k] : k \in 1..Len(calls)}

ArgumentErrorAtField == ServerError("Invalid argument.", ctx.pos)
TypeArgumentRejected ==
    /\ ctx.field = "__type"
    /\ BothPermit
    /\ ctx.name.shape # "string"
EntitiesArgumentRejected ==
    /\ ctx.field = "_entities"
    /\ ~EitherIntrospectionOnly
    /\ registry.enable_federation \/ EntityWithKeys
    /\ ctx.representations.shape # "list"

\* C11: a served __type whose name argument is missing or not a string, and
\* a served _entities whose representations argument is missing or not a
\* list, return the argument error at the field's position at once: no type
\* lookup, no find_entity call, no sub-call context and no call to the inner
\* resolver is made, and the registry is left as it was for the dispatches
\* that follow.
C11_ArgumentErrorBeforeAnyResolver ==
    (Dispatched /\ (TypeArgumentRejected \/ EntitiesArgumentRejected)) =>
        /\ pc = "done"
        /\ result = Err(ArgumentErrorAtField)
        /\ calls = <<>>
        /\ elems = <<>>
        /\ ctx_obj = NoContext
        /\ \E reg \in NewRegistries :
              registry = [reg EXCEPT !.types = CreateTypeInfoTypes(reg)]

C11_Witness ==
    /\ pc = "done"
    /\ ctx.field = "_entities"
    /\ branch = {"federation"}
    /\ ctx.representations = MissingArg
    /\ result = Err(ArgumentErrorAtField)
    /\ calls = <<>>

\* the places in the call log where a find_entity future completed, and
\* those where it completed with a failure
Completions == {k \in 1..Len(calls) : calls[k].op = "find_entity returned"}
CompletionResult(k) == EntityFuture(ctx, RepList[calls[k].idx])
FailedCompletions == {k \in Completions : CompletionResult(k).tag = "Err"}
FirstOf(S) == CHOOSE k \in S : \A j \in S : k <= j

\* C12: in the _entities fan-out the first representation future to
\* complete with a failure ends the batch: the dispatch is complete as soon
\* as that failure is observed, it returns that failure, nothing completes
\* after it, the outputs already obtained are dropped, and no list is
\* returned.
C12_FirstFailureAbortsTheBatch ==
    (OnEntitiesPath /\ FailedCompletions # {}) =>
        /\ pc = "done"
        /\ result = CompletionResult(FirstOf(FailedCompletions))
        /\ result.tag = "Err"
        /\ result.val = NullValue
        /\ \A k \in Completions : k <= FirstOf(FailedCompletions)
        /\ elems = <<>>

C12_Witness ==
    /\ pc = "done"
    /\ OnEntitiesPath
    /\ RepList = <<"A", "Bad", "Ghost">>
    /\ Completions # {}
    /\ \A k \in Completions : calls[k].idx \in {1, 3}
    /\ ReturnedBefore(1, 3)
    /\ result = Err(NotFoundAtField)

CallCount(op, idx) ==
    Cardinality({k \in 1..Len(calls) : calls[k].op = op /\ calls[k].idx = idx})
SubResolverOps ==
    {"resolve __Schema", "resolve __Type", "resolve _Service", "inner.resolve_field"}
OwnFindEntityFailures ==
    {k \in Completions : FindEntity(RepList[calls[k].idx]).tag = "Err"}

\* C13: an error given by the introspection resolver, the service resolver
\* or the inner resolver is what resolve_field returns, unchanged; a
\* find_entity call that fails with its own error ends the batch with that
\* error and not with the entity-not-found error; and no sub-resolver is
\* called a second time.
C13_SubResolverErrorsUnchanged ==
    Dispatched =>
        /\ (pc = "done" /\ awaited.tag = "Err") => result = awaited
        /\ (OnEntitiesPath /\ OwnFindEntityFailures # {}) =>
              /\ pc = "done"
              /\ result = FindEntity(RepList[calls[FirstOf(OwnFindEntityFailures)].idx])
              /\ result.err # NotFoundAtField
        /\ \A op \in SubResolverOps : CallCount(op, 0) <= 1
        /\ \A i \in 1..MaxReps + 1 : CallCount("find_entity", i) <= 1

C13_Witness ==
    /\ pc = "done"
    /\ ctx.field = "_service"
    /\ "resolve _Service" \in CallOps
    /\ awaited = Err(ServerError("_Service failed", NoPos))
    /\ result = awaited

NoReservedBranchApplies ==
    /\ ~EitherIntrospectionOnly
    /\ ~(IntrospectionField /\ BothPermit)
    /\ ~(FederationField /\ (registry.enable_federation \/ EntityWithKeys))
InnerCall == Call("inner.resolve_field", 0, ctx.is_for_introspection)

\* C14: when neither mode is IntrospectionOnly and the field is neither a
\* served introspection field nor a served federation field, resolve_field
\* calls the inner resolver once, with the context it was given, makes no
\* other call, and returns what the inner resolver gives: a value, no value
\* or an error.
C14_DelegatesAndReturnsInnerResult ==
    (Dispatched /\ NoReservedBranchApplies) =>
        /\ pc \in {"await_inner", "done"}
        /\ branch = {"delegated"}
        /\ calls = <<InnerCall>>
        /\ ctx_obj = NoContext
        /\ pc = "done" => (result = awaited /\ result \in InnerOutcomes(ctx))

C14_Witness ==
    /\ pc = "done"
    /\ NoReservedBranchApplies
    /\ ctx.field = "_entities"
    /\ calls = <<InnerCall>>
    /\ awaited = OkNone
    /\ result = OkNone

ReservedNames == {"__schema", "__type"}
DescriptorOf(name) ==
    IF name = "__schema" THEN SchemaFieldDescriptor ELSE TypeFieldDescriptor
BuildsWithIntrospection ==
    builds' = builds + 1 /\ registry.introspection_mode # "Disabled"

\* C15 as stated: an entry named __schema or __type that the root type's
\* field map holds when the descriptors are inserted is left as it is.
C15_ExistingEntryKept ==
    [][BuildsWithIntrospection =>
        \A i \in 1..Len(BeforeInsert) :
            BeforeInsert[i].name \in ReservedNames =>
                RootFields(registry')[i] = BeforeInsert[i]]_vars

\* C15 amended: an entry named __schema or __type that the root type's
\* field map holds when the descriptors are inserted is replaced by the
\* descriptor at the place it has in the map, and no second entry of that
\* name is added; it stays as it is only when it already is the descriptor.
\* Every other entry is left alone, and a descriptor whose name is not in
\* the map is appended.
C15_ExistingEntryReplacedInPlace ==
    [][BuildsWithIntrospection =>
        /\ \A i \in 1..Len(BeforeInsert) :
              RootFields(registry')[i] =
                  IF BeforeInsert[i].name \in ReservedNames
                  THEN DescriptorOf(BeforeInsert[i].name)
                  ELSE BeforeInsert[i]
        /\ Len(RootFields(registry')) =
              Len(BeforeInsert)
                  + Cardinality({n \in ReservedNames : ~IndexMapContainsKey(BeforeInsert, n)})
        /\ \A n \in ReservedNames : IndexMapCount(RootFields(registry'), n) = 1]_vars

C15_Witness ==
    /\ builds = 1
    /\ registry.introspection_mode = "Enabled"
    /\ inner.fields = <<"__schema", "hello">>
    /\ RootFields(registry) =
          <<SchemaFieldDescriptor, MetaField("hello", "", <<>>, "String"),
            TypeFieldDescriptor>>

\* C16: a served _entities with n representations starts find_entity only
\* for indices of the list and at most once for each; when it returns a
\* list, find_entity was started and completed exactly once for every
\* index, and the list has n elements, element i being the output that the
\* future of representation i gave.
C16_OneTaskPerRepresentation ==
    OnEntitiesPath =>
        /\ \A k \in 1..Len(calls) :
              calls[k].op \in {"find_entity", "find_entity returned"} =>
                  calls[k].idx \in 1..Len(RepList)
        /\ \A i \in 1..Len(RepList) :
              /\ CallCount("find_entity", i) <= 1
              /\ CallCount("find_entity returned", i) <= CallCount("find_entity", i)
        /\ pc = "await_join" => Len(elems) = Len(RepList)
        /\ (pc = "done" /\ result.tag = "Some") =>
              /\ Len(result.val.items) = Len(RepList)
              /\ \A i \in 1..Len(RepList) :
                    /\ CallCount("find_entity", i) = 1
                    /\ CallCount("find_entity returned", i) = 1
                    /\ result.val.items[i] = EntityFuture(ctx, RepList[i]).val

C16_Witness ==
    /\ pc = "done"
    /\ OnEntitiesPath
    /\ RepList = <<"B", "A", "B">>
    /\ Len(calls) = 6
    /\ ReturnedBefore(3, 1)
    /\ result = Ok(ListValue(<<EntityValue("B"), EntityValue("A"), EntityValue("B")>>))

\* what try_join_all can give from the elements es on, over every order in
\* which the unfinished futures become ready
RECURSIVE AloneJoin(_, _, _)
AloneJoin(c, reps, es) ==
    UNION {LET polled == PollElems(c, reps, es, woken, PollStart(es, <<>>))
           IN IF polled.state = "Pending" THEN AloneJoin(c, reps, polled.elems)
              ELSE {JoinResult(polled)}
           : woken \in SUBSET {i \in 1..Len(es) : es[i].st # "done"} \ {{}}}

\* what a dispatch that has come to step can return
AloneFinish(reg, c, step) ==
    IF step.pc = "done" THEN {step.result}
    ELSE IF step.pc = "await_schema"
    THEN {MapSome(r) : r \in ResolveOutcomes(SchemaValue, "__Schema failed")}
    ELSE IF step.pc = "await_type"
    THEN {MapSome(r) : r \in OptionResolveOutcomes(
                                TypeLookup(reg, FindVisibleTypes(reg, c), c.name.str))}
    ELSE IF step.pc = "await_service"
    THEN {MapSome(r) : r \in ResolveOutcomes(ServiceValue("federation sdl"),
                                             "_Service failed")}
    ELSE IF step.pc = "await_inner"
    THEN {Delegate(r) : r \in InnerOutcomes(c)}
    ELSE AloneJoin(c, c.representations.list, step.elems)

\* the results a dispatch of request c on the schema reg can return when no
\* other dispatch runs
AloneResults(reg, c) ==
    UNION {AloneFinish(reg, c, Dispatch(reg, c, ready)) :
              ready \in SUBSET (1..Len(c.representations.list))}

\* the dispatch that runs has not been started before the step, or has been
\* given back after it
StartsOrEnds == pc = "idle" \/ pc' = "idle"

\* C17: no step of a dispatch of resolve_field, whatever it returns, changes
\* the registry (schema-level mode, federation-enabled flag, the types that
\* give the entity-presence flag, the type table and the root field map) or
\* the request-level mode of a dispatch in progress; and of two dispatches
\* interleaved on the same schema each returns a result it can return when
\* it runs alone.
C17_DispatchChangesNoSharedState ==
    /\ [][/\ registry' = registry
          /\ HasEntities(registry') = HasEntities(registry)
          /\ \/ /\ other'.ctx = other.ctx
                /\ StartsOrEnds \/ ctx'.introspection_mode = ctx.introspection_mode
             \/ /\ other'.ctx = ctx
                /\ ctx' = other.ctx]_vars
    /\ [](pc = "done" => result \in AloneResults(registry, ctx))
    /\ [](other.pc = "done" => other.result \in AloneResults(registry, other.ctx))

C17_Witness ==
    /\ registry.introspection_mode = "Enabled"
    /\ pc = "done"
    /\ ctx.field = "__type"
    /\ ctx.introspection_mode = "IntrospectionOnly"
    /\ result = Ok(TypeValue(UserTypeName))
    /\ other.pc = "await_join"
    /\ other.ctx.introspection_mode = "Disabled"
    /\ other.ctx.representations = ListArg(<<"A">>)

GateDenies ==
    registry.introspection_mode = "Disabled" \/ ctx.introspection_mode = "Disabled"

\* C18: when a mode is Disabled, a dispatch of __schema or __type reads no
\* argument and makes no introspection call, so it returns neither an
\* introspection payload nor an argument error of the dispatcher: it
\* returns no value at once if the other mode is IntrospectionOnly, and is
\* otherwise delegated to the inner resolver, whose result it returns.
C18_DeniedIntrospectionFallsThrough ==
    (Dispatched /\ IntrospectionField /\ GateDenies) =>
        /\ "introspection" \notin branch
        /\ CallOps \cap IntrospectionOps = {}
        /\ ctx_obj = NoContext
        /\ result.val.t \notin {"__Schema", "__Type"}
        /\ result # Err(ArgumentErrorAtField)
        /\ EitherIntrospectionOnly =>
              (pc = "done" /\ result = OkNone /\ calls = <<>>)
        /\ ~EitherIntrospectionOnly =>
              /\ branch = {"delegated"}
              /\ calls = <<InnerCall>>
              /\ pc = "done" => (result = awaited /\ result \in InnerOutcomes(ctx))

C18_Witness ==
    /\ pc = "done"
    /\ ctx.field = "__type"
    /\ ctx.name = MissingArg
    /\ registry.introspection_mode = "Enabled"
    /\ ctx.introspection_mode = "Disabled"
    /\ branch = {"delegated"}
    /\ result = Ok(UserValue("__type"))

Unfinished ==
    {i \in 1..Len(RepList) :
        CallCount("find_entity", i) = 1 /\ CallCount("find_entity returned", i) = 0}

\* C19: when every pending find_entity future becomes ready in the end and
\* woken tasks are polled, an _entities dispatch that is suspended in
\* try_join_all completes in the end, with a list or with an error; and a
\* failure completes it in the very poll that observes it, whatever
\* futures are still unfinished.
C19_EntitiesDispatchCompletes ==
    /\ (pc = "await_join") ~> (pc = "done" /\ result.tag \in {"Some", "Err"})
    /\ [](pc = "await_join" => FailedCompletions = {})

C19_Witness ==
    /\ pc = "done"
    /\ OnEntitiesPath
    /\ RepList = <<"A", "Ghost", "B">>
    /\ Unfinished = {1, 3}
    /\ result = Err(NotFoundAtField)

====
